---- MODULE Spec2Model ----
(***************************************************************************)
(* Model of the trip planning core of eld_app/services.py                  *)
(* (TripPlannerService): the chunked driving simulation of one leg, the    *)
(* itinerary builder around it, the day splitter, the per-day statistics,  *)
(* the daily schedule synthesizer and the cycle tracker.                   *)
(*                                                                         *)
(* Units.  Hours are integers in hundredths of an hour (the resolution of  *)
(* round(x, 2) in the source), distances are integers in tenths of a mile  *)
(* (the resolution of round(x, 1)).  Leg durations are drawn from the      *)
(* values whose chunk length is a whole number of hundredths, so every     *)
(* clock value of the simulation is a whole number of hundredths and       *)
(* round(x, 2) leaves it unchanged.  The position inside a leg is the      *)
(* exact fraction (start * N + (chunk + 1) * distance) / N.                *)
(*                                                                         *)
(* Not modelled: the location labels, remarks and notes (strings that no   *)
(* computation reads back), the kilometre copy of each distance, the       *)
(* time_of_day label, and of a daily log the date, the stops_today labels  *)
(* and the four display copies of the day statistics rounded to whole      *)
(* hours (round(x, 0) of a binary sum that can lie a rounding error below  *)
(* a half).                                                                *)
(***************************************************************************)
EXTENDS Integers, Sequences, FiniteSets, TLC

----------------------------------------------------------------------------
(* Program constants (TripPlannerService.__init__ and literals).           *)

max_driving_hours == 1100
max_duty_hours == 1400
min_rest_hours == 1000
break_after_hours == 800
fuel_interval_miles == 10000
pickup_duration == 100
dropoff_duration == 100
fuel_stop_duration == 50
rest_stop_duration == 50
CHUNK_SIZE_HOURS == 50
HoursPerDay == 2400
RestartThreshold == 7000
DefaultDayStart == 600
DefaultSleeperEnd == 1000
MinLastDaySleeper == 800

(* A dictionary key that is absent / a local that is not yet bound.        *)
None == -1

----------------------------------------------------------------------------
(* Bounds of the model.                                                    *)

MaxChunks1 == 40
MaxChunks2 == 30
MaxSplitStart == 8
MaxSplitDur == 14

(* Chunk lengths of the legs that are drawn: 0 (an empty leg), 0.30 h (a   *)
(* leg shorter than one chunk), 0.48 h (chunk boundaries that do not fall  *)
(* on the 8 h / 11 h / 14 h limits) and 0.50 h (boundaries that do).       *)
ChunkLens == {0, 30, 48, 50}

(* Leg distances in tenths of a mile: none; 992 miles (about 1600 km) for  *)
(* each leg; 499.2 and 2560 miles; 499.2 and 6400 miles, a second leg with *)
(* fuel stops enough to bring the duty clock to its limit before the       *)
(* driving clock.  They are multiples of 6.4 miles, so that no position    *)
(* inside a leg lies halfway between two tenths of a mile, where           *)
(* round(x, 1) depends on the binary form of x.                            *)
MilesPairs == {<<0, 0>>, <<9920, 9920>>, <<4992, 25600>>, <<4992, 64000>>}

(* current_cycle_used on entry: 50 and 65 hours. *)
CycleChoices == {5000, 6500}

(* Grain of the stops handed to the day splitter on its own: 4 hours.      *)
SplitGrain == 400

----------------------------------------------------------------------------
(* Arithmetic helpers.                                                     *)

Max(a, b) == IF a >= b THEN a ELSE b

Min(a, b) == IF a <= b THEN a ELSE b

(* math.ceil(a / b) for a >= 0, b > 0 *)
CeilDiv(a, b) == (a + b - 1) \div b

(* round(a / b) to the nearest integer, ties to even (Python 3 round). *)
RoundDiv(a, b) ==
  LET q == a \div b
      r == a % b
  IN  IF 2 * r < b THEN q
      ELSE IF 2 * r > b THEN q + 1
      ELSE IF q % 2 = 0 THEN q ELSE q + 1

RECURSIVE SumSeq(_)
SumSeq(s) == IF s = <<>> THEN 0 ELSE Head(s) + SumSeq(Tail(s))

Last(s) == s[Len(s)]

----------------------------------------------------------------------------
(* Chunking of a leg (_simulate_driving_segment, lines 266-270).           *)

num_chunks_floor(segment_duration_hours) ==
  Max(1, segment_duration_hours \div CHUNK_SIZE_HOURS)

num_chunks(segment_duration_hours) ==
  Max(1, CeilDiv(segment_duration_hours, CHUNK_SIZE_HOURS))

chunk_hours(segment_duration_hours) ==
  segment_duration_hours \div num_chunks(segment_duration_hours)

(* The leg durations drawn: up to maxn chunks of one of the chunk lengths. *)
LegDurations(maxn) ==
  { d \in 0..(maxn * CHUNK_SIZE_HOURS) :
      \E n \in 1..maxn, len \in ChunkLens :
        /\ d = n * len
        /\ d <= n * CHUNK_SIZE_HOURS
        /\ d > (n - 1) * CHUNK_SIZE_HOURS \/ (n = 1 /\ d = 0) }

----------------------------------------------------------------------------
(* Stop dictionaries.                                                      *)

Stop(type, miles, hours, duration, driving, duty, break) ==
  [ type |-> type,
    cumulative_distance_miles |-> miles,
    cumulative_hours |-> hours,
    stop_duration |-> duration,
    cumulative_driving_today |-> driving,
    cumulative_on_duty_today |-> duty,
    cumulative_driving_since_break |-> break,
    next_fuel_check |-> None,
    current_hours |-> None,
    day |-> None,
    time_in_day |-> None ]

----------------------------------------------------------------------------
VARIABLES
  args,                        \* the arguments of the planning core
  pc,                          \* position in the planning core
  stops,                       \* the itinerary being built
  totals,                      \* locals of _generate_hos_compliant_stops
  segment,                     \* arguments of _simulate_driving_segment
  segment_stops,               \* stops of the leg being simulated
  chunk,                       \* loop index of the leg
  current_cumulative_driving,  \* driving_today
  current_cumulative_on_duty,  \* duty_today
  current_cumulative_break,    \* driving_since_break
  current_fuel_check,          \* next fuel checkpoint
  current_hours,               \* elapsed hours inside the leg
  fuel_stop_counter,
  driven,                      \* chunk hours added to the clocks in this leg
  processed_stops,             \* day-bounded fragments
  daily_logs,
  cycle_used,
  chunk_stops,                 \* types of the stops emitted in this chunk
  run,                         \* number of the planning request being served
  first_run,                   \* arguments and results of the first request
  location_name,               \* argument of geocode_location
  provider,                    \* the last response of an external service
  real_coords,                 \* result of _geocode_with_nominatim
  start_coords,                \* result of geocode_location, origin of the route
  end_coords,                  \* destination of the route
  route                        \* result of get_route

segvars == <<segment, segment_stops, chunk, current_cumulative_driving,
             current_cumulative_on_duty, current_cumulative_break,
             current_fuel_check, current_hours, fuel_stop_counter, driven,
             chunk_stops>>

logvars == <<processed_stops, daily_logs, cycle_used>>

(* The map service. *)
mapvars == <<location_name, provider, real_coords, start_coords, end_coords,
             route>>

(* What belongs to the caller of the planning core. *)
callvars == <<args, run, first_run, mapvars>>

vars == <<pc, stops, totals, segvars, logvars, callvars>>

----------------------------------------------------------------------------
(* Reading the leg being simulated.                                        *)

NumChunks == num_chunks(segment.segment_duration_hours)

ChunkHours == chunk_hours(segment.segment_duration_hours)

(* current_distance = start_distance + chunk_progress * distance, as the    *)
(* numerator of a fraction over NumChunks (line 287).                      *)
current_distance_num ==
  segment.start_distance * NumChunks
    + (chunk + 1) * segment.segment_distance_miles

(* round(current_distance, 1) *)
current_distance_rounded == RoundDiv(current_distance_num, NumChunks)

(* The stop emitted at the current position with the current clocks        *)
(* (the dictionaries of lines 296-307, 317-328, 341-353, 366-377).         *)
SegmentStop(type, hours, duration) ==
  Stop(type, current_distance_rounded, hours, duration,
       current_cumulative_driving, current_cumulative_on_duty,
       current_cumulative_break)

(* Entry of _simulate_driving_segment (lines 264-277). *)
EnterSegment(is_after_pickup, miles, hours, start_distance, start_hours, driving, duty, break, fuel_check) ==
  /\ segment' = [ is_after_pickup |-> is_after_pickup,
                  segment_distance_miles |-> miles,
                  segment_duration_hours |-> hours,
                  start_distance |-> start_distance,
                  start_hours |-> start_hours ]
  /\ segment_stops' = <<>>
  /\ chunk' = 0
  /\ current_cumulative_driving' = driving
  /\ current_cumulative_on_duty' = duty
  /\ current_cumulative_break' = break
  /\ current_fuel_check' = fuel_check
  /\ current_hours' = None
  /\ fuel_stop_counter' = (start_distance \div fuel_interval_miles) + 1
  /\ driven' = 0
  /\ chunk_stops' = <<>>

----------------------------------------------------------------------------
(* _generate_hos_compliant_stops, lines 142-180: the START stop, the zero  *)
(* clocks, and the call that simulates the leg to the pickup.              *)

StartStopAfterLastTrip ==
  [ Stop("START", 0, totals.cumulative_hours, 0, None, None, None)
      EXCEPT !.day = 1 ]

StartStop ==
  [ Stop("START", 0, 0, 0, None, None, None) EXCEPT !.day = 1 ]

Start ==
  /\ pc = "start"
  /\ stops' = <<StartStop>>
  /\ totals' = [ cumulative_driving_today |-> 0,
                 cumulative_on_duty_today |-> 0,
                 cumulative_driving_since_break |-> 0,
                 cumulative_distance |-> 0,
                 cumulative_hours |-> 0,
                 next_fuel_check |-> fuel_interval_miles,
                 current_hours |-> None ]
  /\ EnterSegment(FALSE, args.current_to_pickup_miles,
                  args.current_to_pickup_hours, 0, 0, 0, 0, 0,
                  fuel_interval_miles)
  /\ pc' = "loop"
  /\ UNCHANGED <<callvars, logvars>>

----------------------------------------------------------------------------
(* One iteration of the chunk loop of _simulate_driving_segment.           *)

(* Lines 279-288: advance the clocks and the position by one chunk. *)
Advance ==
  /\ pc = "loop"
  /\ chunk < NumChunks
  /\ current_cumulative_driving' = current_cumulative_driving + ChunkHours
  /\ current_cumulative_on_duty' = current_cumulative_on_duty + ChunkHours
  /\ current_cumulative_break' = current_cumulative_break + ChunkHours
  /\ current_hours' = segment.start_hours
        + ((chunk + 1) * segment.segment_duration_hours) \div NumChunks
  /\ driven' = driven + ChunkHours
  /\ chunk_stops' = <<>>
  /\ pc' = "check_rest"
  /\ UNCHANGED <<callvars, stops, totals, segment, segment_stops, chunk,
                 current_fuel_check, fuel_stop_counter, logvars>>

(* CHECK 1 (line 291) *)
RestOverdue == current_cumulative_break > break_after_hours

RestDue == current_cumulative_break >= break_after_hours

(* The clock values left by a REST stop (lines 309-311). *)
BreakAfterRestKept == current_cumulative_break

BreakAfterRest == 0

(* Lines 290-311: the 30-minute break. *)
EmitRest ==
  /\ pc = "check_rest"
  /\ RestDue
  /\ LET difference == break_after_hours - current_cumulative_break
     IN  segment_stops' = Append(segment_stops,
           SegmentStop("REST", current_hours + difference, rest_stop_duration))
  /\ current_cumulative_on_duty' = current_cumulative_on_duty + rest_stop_duration
  /\ current_cumulative_break' = BreakAfterRest
  /\ current_hours' = current_hours + rest_stop_duration
  /\ chunk_stops' = Append(chunk_stops, "REST")
  /\ pc' = "check_fuel"
  /\ UNCHANGED <<callvars, stops, totals, segment, chunk,
                 current_cumulative_driving, current_fuel_check,
                 fuel_stop_counter, driven, logvars>>

SkipRest ==
  /\ pc = "check_rest"
  /\ ~RestDue
  /\ pc' = "check_fuel"
  /\ UNCHANGED <<callvars, stops, totals, segvars, logvars>>

(* CHECK 2 (line 314) *)
FuelDueEveryChunk == segment.is_after_pickup

(* CHECK 2 (line 314) *)
FuelDue ==
  /\ segment.is_after_pickup
  /\ current_distance_num >= current_fuel_check * NumChunks

(* Lines 313-333: the fuel stop. *)
EmitFuel ==
  /\ pc = "check_fuel"
  /\ FuelDue
  /\ segment_stops' = Append(segment_stops,
        SegmentStop("FUEL", current_hours, fuel_stop_duration))
  /\ current_cumulative_on_duty' = current_cumulative_on_duty + fuel_stop_duration
  /\ fuel_stop_counter' = fuel_stop_counter + 1
  /\ current_fuel_check' = current_fuel_check + fuel_interval_miles
  /\ current_hours' = current_hours + fuel_stop_duration
  /\ chunk_stops' = Append(chunk_stops, "FUEL")
  /\ pc' = "check_overnight"
  /\ UNCHANGED <<callvars, stops, totals, segment, chunk,
                 current_cumulative_driving, current_cumulative_break,
                 driven, logvars>>

SkipFuel ==
  /\ pc = "check_fuel"
  /\ ~FuelDue
  /\ pc' = "check_overnight"
  /\ UNCHANGED <<callvars, stops, totals, segvars, logvars>>

(* CHECK 3 (line 336) and CHECK 4 (line 361) *)
DrivingOrCycleLimitReached ==
  \/ current_cumulative_driving >= max_driving_hours
  \/ args.current_cycle_used + current_cumulative_on_duty >= RestartThreshold

DrivingLimitReached == current_cumulative_driving >= max_driving_hours

DutyLimitExceeded == current_cumulative_on_duty > max_duty_hours

DutyLimitReached == current_cumulative_on_duty >= max_duty_hours

(* Lines 355-358 and 379-382 *)
OvernightResetsDrivingKept ==
  /\ current_cumulative_driving' = current_cumulative_driving
  /\ current_cumulative_on_duty' = 0
  /\ current_cumulative_break' = 0
  /\ current_hours' = current_hours + min_rest_hours

(* Lines 355-358 and 379-382: the resets of an overnight rest. *)
OvernightResets ==
  /\ current_cumulative_driving' = 0
  /\ current_cumulative_on_duty' = 0
  /\ current_cumulative_break' = 0
  /\ current_hours' = current_hours + min_rest_hours

(* Lines 335-358: the 10-hour rest at the daily driving limit. *)
EmitOvernightDriving ==
  /\ pc = "check_overnight"
  /\ DrivingLimitReached
  /\ LET difference == max_driving_hours - current_cumulative_driving
     IN  segment_stops' = Append(segment_stops,
           SegmentStop("OVERNIGHT", current_hours + difference, min_rest_hours))
  /\ OvernightResets
  /\ chunk_stops' = Append(chunk_stops, "OVERNIGHT")
  /\ chunk' = chunk + 1
  /\ pc' = "loop"
  /\ UNCHANGED <<callvars, stops, totals, segment, current_fuel_check,
                 fuel_stop_counter, driven, logvars>>

(* Lines 360-382: the 10-hour rest at the daily duty limit. *)
EmitOvernightDuty ==
  /\ pc = "check_overnight"
  /\ ~DrivingLimitReached
  /\ DutyLimitReached
  /\ LET difference == max_duty_hours - current_cumulative_on_duty
     IN  segment_stops' = Append(segment_stops,
           SegmentStop("OVERNIGHT", current_hours + difference, min_rest_hours))
  /\ OvernightResets
  /\ chunk_stops' = Append(chunk_stops, "OVERNIGHT")
  /\ chunk' = chunk + 1
  /\ pc' = "loop"
  /\ UNCHANGED <<callvars, stops, totals, segment, current_fuel_check,
                 fuel_stop_counter, driven, logvars>>

SkipOvernight ==
  /\ pc = "check_overnight"
  /\ ~DrivingLimitReached
  /\ ~DutyLimitReached
  /\ chunk' = chunk + 1
  /\ pc' = "loop"
  /\ UNCHANGED <<callvars, stops, totals, segment, segment_stops,
                 current_cumulative_driving, current_cumulative_on_duty,
                 current_cumulative_break, current_fuel_check, current_hours,
                 fuel_stop_counter, driven, chunk_stops, logvars>>

(* Lines 384-391: the final clocks are written into the leg's last stop. *)
WithMetadata(ss) ==
  IF ss = <<>> THEN ss
  ELSE [ ss EXCEPT ![Len(ss)] =
           [ @ EXCEPT !.cumulative_driving_today = current_cumulative_driving,
                      !.cumulative_on_duty_today = current_cumulative_on_duty,
                      !.cumulative_driving_since_break = current_cumulative_break,
                      !.next_fuel_check = current_fuel_check,
                      !.current_hours = current_hours ] ]

(* Lines 384-394: the loop is over, the leg returns its stops. *)
EndSegment ==
  /\ pc = "loop"
  /\ chunk >= NumChunks
  /\ segment_stops' = WithMetadata(segment_stops)
  /\ pc' = IF segment.is_after_pickup THEN "dropoff" ELSE "pickup"
  /\ UNCHANGED <<callvars, stops, totals, segment, chunk,
                 current_cumulative_driving, current_cumulative_on_duty,
                 current_cumulative_break, current_fuel_check, current_hours,
                 fuel_stop_counter, driven, chunk_stops, logvars>>

----------------------------------------------------------------------------
(* _generate_hos_compliant_stops after the leg to the pickup               *)
(* (lines 182-222).                                                        *)

(* Lines 185-193 with the duty clock left at the default of its get(). *)
TotalsAfterLeg1DutyDefault(t, last, miles) ==
  [ t EXCEPT !.cumulative_distance = miles,
             !.cumulative_hours = last.cumulative_hours,
             !.cumulative_driving_today = last.cumulative_driving_today,
             !.cumulative_on_duty_today = 0,
             !.cumulative_driving_since_break = last.cumulative_driving_since_break,
             !.next_fuel_check = last.next_fuel_check,
             !.current_hours = last.current_hours ]

(* Lines 185-193: the totals are read back from the leg's last stop.  The  *)
(* elapsed hours are that stop's own cumulative_hours, the time at which   *)
(* it was emitted.                                                         *)
TotalsAfterLeg1(t, last, miles) ==
  [ t EXCEPT !.cumulative_distance = miles,
             !.cumulative_hours = last.cumulative_hours,
             !.cumulative_driving_today = last.cumulative_driving_today,
             !.cumulative_on_duty_today = last.cumulative_on_duty_today,
             !.cumulative_driving_since_break = last.cumulative_driving_since_break,
             !.next_fuel_check = last.next_fuel_check,
             !.current_hours = last.current_hours ]

(* Lines 207-208 *)
TotalsAfterPickupBreakReset(t) ==
  [ t EXCEPT !.cumulative_hours = @ + pickup_duration,
             !.cumulative_on_duty_today = @ + pickup_duration,
             !.cumulative_driving_since_break = 0 ]

TotalsAfterPickup(t) ==
  [ t EXCEPT !.cumulative_hours = @ + pickup_duration,
             !.cumulative_on_duty_today = @ + pickup_duration ]

(* Lines 197-205 *)
PickupStop(t) ==
  Stop("PICKUP", t.cumulative_distance, t.current_hours, pickup_duration,
       None, None, None)

(* Line 202 reads current_hours, which only line 193 binds: when the leg   *)
(* emitted no stop the read raises UnboundLocalError.                      *)
PickupRaises ==
  /\ pc = "pickup"
  /\ segment_stops = <<>>
  /\ stops' = stops \o segment_stops
  /\ pc' = "raised"
  /\ UNCHANGED <<callvars, totals, segvars, logvars>>

Pickup ==
  /\ pc = "pickup"
  /\ segment_stops # <<>>
  /\ LET t1 == TotalsAfterLeg1(totals, Last(segment_stops),
                               args.current_to_pickup_miles)
         t2 == TotalsAfterPickup(t1)
     IN  /\ stops' = (stops \o segment_stops) \o <<PickupStop(t1)>>
         /\ totals' = t2
         /\ EnterSegment(TRUE, args.pickup_to_dropoff_miles,
                         args.pickup_to_dropoff_hours,
                         t2.cumulative_distance, t2.cumulative_hours,
                         t2.cumulative_driving_today,
                         t2.cumulative_on_duty_today,
                         t2.cumulative_driving_since_break,
                         t2.next_fuel_check)
  /\ pc' = "loop"
  /\ UNCHANGED <<callvars, logvars>>

----------------------------------------------------------------------------
(* _generate_hos_compliant_stops after the leg to the dropoff              *)
(* (lines 224-248).                                                        *)

total_distance_miles ==
  args.current_to_pickup_miles + args.pickup_to_dropoff_miles

(* Lines 227-234: when the leg emitted no stop, current_hours keeps the    *)
(* value bound after the first leg.                                        *)
TotalsAfterLeg2(t, ss) ==
  IF ss = <<>> THEN t
  ELSE [ t EXCEPT !.cumulative_distance = total_distance_miles,
                  !.cumulative_hours = Last(ss).cumulative_hours,
                  !.cumulative_driving_today = Last(ss).cumulative_driving_today,
                  !.cumulative_on_duty_today = Last(ss).cumulative_on_duty_today,
                  !.cumulative_driving_since_break =
                      Last(ss).cumulative_driving_since_break,
                  !.current_hours = Last(ss).current_hours ]

(* Lines 238-246 *)
DropoffStop(t) ==
  Stop("DROPOFF", total_distance_miles, t.current_hours, dropoff_duration,
       None, None, None)

Dropoff ==
  /\ pc = "dropoff"
  /\ LET t1 == TotalsAfterLeg2(totals, segment_stops)
     IN  /\ stops' = (stops \o segment_stops) \o <<DropoffStop(t1)>>
         /\ totals' = t1
  /\ pc' = "assign_days"
  /\ UNCHANGED <<callvars, segvars, logvars>>

----------------------------------------------------------------------------
(* _assign_days_to_stops (lines 434-476), called from plan_trip line 79.   *)

WithDay(stop) ==
  [ stop EXCEPT !.day = (stop.cumulative_hours \div HoursPerDay) + 1,
                !.time_in_day = stop.cumulative_hours % HoursPerDay ]

assign_days_to_stops(ss) == [ i \in 1..Len(ss) |-> WithDay(ss[i]) ]

AssignDays ==
  /\ pc = "assign_days"
  /\ stops' = assign_days_to_stops(stops)
  /\ pc' = "split"
  /\ UNCHANGED <<callvars, totals, segvars, logvars>>

----------------------------------------------------------------------------
(* _split_stops_across_days (lines 537-606).                               *)

(* stop.copy() with the day-bound keys set; of the copied keys, those that  *)
(* the later steps read.                                                   *)
Fragment(stop, day, start, end, duration, is_split, part) ==
  [ type |-> stop.type,
    cumulative_distance_miles |-> stop.cumulative_distance_miles,
    cumulative_hours |-> stop.cumulative_hours,
    stop_duration |-> stop.stop_duration,
    day |-> day,
    start_time_in_day |-> start,
    end_time_in_day |-> end,
    duration_in_day |-> duration,
    is_split_part |-> is_split,
    split_part |-> part ]

(* Line 589 *)
hours_this_day_unclipped(remaining_duration) == remaining_duration

hours_this_day(remaining_duration) == Min(HoursPerDay, remaining_duration)

(* Lines 587-604: the parts on the days after the first. *)
RECURSIVE SplitRest(_, _, _, _)
SplitRest(stop, start_day, current_day, remaining_duration) ==
  IF remaining_duration > 0
  THEN LET h == hours_this_day(remaining_duration)
       IN  <<Fragment(stop, current_day, 0, 0 + h, h, TRUE,
                      current_day - start_day + 1)>>
             \o SplitRest(stop, start_day, current_day + 1,
                          remaining_duration - h)
  ELSE <<>>

(* Line 583 *)
remaining_whole_stop(stop_duration, hours_on_start_day) == stop_duration

remaining_after_start_day(stop_duration, hours_on_start_day) ==
  stop_duration - hours_on_start_day

(* Lines 548-604: the fragments of one stop. *)
SplitStop(stop) ==
  LET start_day == (stop.cumulative_hours \div HoursPerDay) + 1
      start_time_in_day == stop.cumulative_hours % HoursPerDay
      end_hours == stop.cumulative_hours + stop.stop_duration
      end_day == (end_hours \div HoursPerDay) + 1
      end_time_in_day == end_hours % HoursPerDay
  IN  IF start_day = end_day
      THEN <<Fragment(stop, start_day, start_time_in_day, end_time_in_day,
                      stop.stop_duration, FALSE, None)>>
      ELSE LET hours_on_start_day == HoursPerDay - start_time_in_day
           IN  <<Fragment(stop, start_day, start_time_in_day, HoursPerDay,
                          hours_on_start_day, TRUE, 1)>>
                 \o SplitRest(stop, start_day, start_day + 1,
                              remaining_after_start_day(stop.stop_duration,
                                                        hours_on_start_day))

RECURSIVE split_stops_across_days(_)
split_stops_across_days(ss) ==
  IF ss = <<>> THEN <<>>
  ELSE SplitStop(Head(ss)) \o split_stops_across_days(Tail(ss))

----------------------------------------------------------------------------
(* Grouping and ordering of the fragments                                  *)
(* (_generate_daily_logs_from_stops, lines 495-509).                       *)

(* The keys of stops_by_day. *)
DaysOf(fragments) == { fragments[i].day : i \in 1..Len(fragments) }

(* sorted(stops_by_day.keys())[k - 1] *)
NthDay(fragments, k) ==
  CHOOSE d \in DaysOf(fragments) :
    Cardinality({ e \in DaysOf(fragments) : e < d }) = k - 1

RECURSIVE InsertByStart(_, _)
InsertByStart(sorted, x) ==
  IF sorted = <<>> THEN <<x>>
  ELSE IF Head(sorted).start_time_in_day <= x.start_time_in_day
       THEN <<Head(sorted)>> \o InsertByStart(Tail(sorted), x)
       ELSE <<x>> \o sorted

(* list.sort(key = start_time_in_day): stable. *)
RECURSIVE SortByStart(_)
SortByStart(s) ==
  IF s = <<>> THEN <<>>
  ELSE InsertByStart(SortByStart(SubSeq(s, 1, Len(s) - 1)), s[Len(s)])

(* stops_by_day[day_num] after line 509 *)
DayStops(fragments, day_num) ==
  SortByStart(SelectSeq(fragments, LAMBDA f : f.day = day_num))

----------------------------------------------------------------------------
(* _calculate_day_stats (lines 608-679).                                   *)

(* Lines 628-639: the gaps between consecutive stops of the day. *)
RECURSIVE GapHours(_)
GapHours(day_stops) ==
  IF Len(day_stops) < 2 THEN 0
  ELSE LET current_end == day_stops[1].end_time_in_day
           next_start == day_stops[2].start_time_in_day
       IN  (IF next_start > current_end THEN next_start - current_end ELSE 0)
             + GapHours(Tail(day_stops))

(* Lines 642-651: the stop hours of the day of the given types. *)
RECURSIVE StopHours(_, _)
StopHours(day_stops, types) ==
  IF day_stops = <<>> THEN 0
  ELSE (IF Head(day_stops).type \in types
        THEN Head(day_stops).duration_in_day ELSE 0)
         + StopHours(Tail(day_stops), types)

calculate_day_stats(day_stops, day_num, total_days) ==
  IF day_stops = <<>>
  THEN [ driving_hours |-> 0, on_duty_not_driving |-> 0, total_on_duty |-> 0,
         off_duty_hours |-> HoursPerDay, sleeper_berth |-> 0 ]
  ELSE
    LET driving_hours == GapHours(day_stops)
        on_duty_not_driving ==
          StopHours(day_stops, {"PICKUP", "DROPOFF", "FUEL", "REST"})
        sleeper_berth == StopHours(day_stops, {"OVERNIGHT"})
        total_on_duty == driving_hours + on_duty_not_driving
        total_accounted == total_on_duty + sleeper_berth
        off_duty_hours == Max(0, HoursPerDay - total_accounted)
        is_last_day == (day_num = total_days)
        adjust == is_last_day /\ sleeper_berth > 0
                    /\ sleeper_berth < MinLastDaySleeper
        sleeper_adjusted ==
          Min(MinLastDaySleeper, HoursPerDay - total_on_duty)
    IN  [ driving_hours |-> driving_hours,
          on_duty_not_driving |-> on_duty_not_driving,
          total_on_duty |-> total_on_duty,
          off_duty_hours |->
            IF adjust
            THEN Max(0, HoursPerDay - total_on_duty - sleeper_adjusted)
            ELSE off_duty_hours,
          sleeper_berth |->
            IF adjust THEN sleeper_adjusted ELSE sleeper_berth ]

----------------------------------------------------------------------------
(* _generate_daily_schedule (lines 681-803).                               *)

DutySegment(status, start, end) ==
  [ status |-> status, start |-> start, end |-> end ]

(* _get_status_for_stop_type (lines 805-816) *)
get_status_for_stop_type(stop_type) ==
  CASE stop_type = "START" -> "D"
    [] stop_type \in {"PICKUP", "DROPOFF", "FUEL", "REST"} -> "ON"
    [] stop_type = "OVERNIGHT" -> "SB"
    [] stop_type = "OFF" -> "OFF"
    [] OTHER -> "ON"

(* Line 709: the first split part of an overnight rest among the day's     *)
(* stops, if any.                                                          *)
OngoingOvernight(day_stops) ==
  SelectSeq(day_stops,
            LAMBDA f : f.is_split_part /\ f.type \in {"OVERNIGHT", "OFF"})

(* Lines 690-726 with the default start of the first day taken always. *)
ScheduleStartAtDefault(day_stops, day_num) ==
  IF day_num = 1
  THEN [ schedule |-> <<DutySegment("OFF", 0, DefaultDayStart)>>,
         current_time |-> DefaultDayStart ]
  ELSE LET ongoing == OngoingOvernight(day_stops)
       IN  IF ongoing # <<>>
           THEN [ schedule |->
                    <<DutySegment(IF ongoing[1].type = "OVERNIGHT"
                                  THEN "SB" ELSE "OFF",
                                  0, ongoing[1].end_time_in_day)>>,
                  current_time |-> ongoing[1].end_time_in_day ]
           ELSE [ schedule |-> <<DutySegment("SB", 0, DefaultSleeperEnd)>>,
                  current_time |-> DefaultSleeperEnd ]

(* Lines 690-726: the start of the day, as the schedule so far and the     *)
(* time it covers.                                                         *)
ScheduleStart(day_stops, day_num) ==
  IF day_num = 1
  THEN LET current_time ==
             IF day_stops # <<>>
                  /\ day_stops[1].start_time_in_day < DefaultDayStart
             THEN day_stops[1].start_time_in_day
             ELSE DefaultDayStart
       IN  [ schedule |-> IF current_time > 0
                          THEN <<DutySegment("OFF", 0, current_time)>>
                          ELSE <<>>,
             current_time |-> current_time ]
  ELSE LET ongoing == OngoingOvernight(day_stops)
       IN  IF ongoing # <<>>
           THEN [ schedule |->
                    <<DutySegment(IF ongoing[1].type = "OVERNIGHT"
                                  THEN "SB" ELSE "OFF",
                                  0, ongoing[1].end_time_in_day)>>,
                  current_time |-> ongoing[1].end_time_in_day ]
           ELSE [ schedule |-> <<DutySegment("SB", 0, DefaultSleeperEnd)>>,
                  current_time |-> DefaultSleeperEnd ]

(* Lines 739-769: the stops of the day in order. *)
RECURSIVE ScheduleStops(_, _)
ScheduleStops(day_stops, acc) ==
  IF day_stops = <<>> THEN acc
  ELSE LET stop == Head(day_stops)
           start_time == stop.start_time_in_day
           duration == stop.duration_in_day
       IN  IF start_time < acc.current_time
           THEN ScheduleStops(Tail(day_stops), acc)
           ELSE LET gap == IF start_time > acc.current_time
                           THEN <<DutySegment("D", acc.current_time, start_time)>>
                           ELSE <<>>
                    activity == DutySegment(get_status_for_stop_type(stop.type),
                                            start_time, start_time + duration)
                IN  ScheduleStops(Tail(day_stops),
                      [ schedule |-> (acc.schedule \o gap) \o <<activity>>,
                        current_time |-> start_time + duration ])

(* Lines 775-801: the rest of the day after the last stop. *)
FillNothing(acc, is_last_day) == acc.schedule

ScheduleFill(acc, is_last_day) ==
  IF acc.current_time < HoursPerDay
  THEN Append(acc.schedule,
              DutySegment(IF is_last_day THEN "OFF" ELSE "D",
                          acc.current_time, HoursPerDay))
  ELSE acc.schedule

generate_daily_schedule(day_stops, day_num, total_days) ==
  ScheduleFill(ScheduleStops(day_stops, ScheduleStart(day_stops, day_num)),
               day_num = total_days)

----------------------------------------------------------------------------
(* _generate_daily_logs_from_stops (lines 489-535).                        *)

(* Lines 493-505: split, group by day, start the cycle total. *)
SplitStops ==
  /\ pc = "split"
  /\ processed_stops' = split_stops_across_days(stops)
  /\ daily_logs' = <<>>
  /\ cycle_used' = args.current_cycle_used
  /\ pc' = "daily_logs"
  /\ UNCHANGED <<callvars, stops, totals, segvars>>

(* Line 518 *)
CycleAfterDrivingOnly(cycle, day_stats) == cycle + day_stats.driving_hours

CycleAfterRestart(cycle, day_stats) == day_stats.total_on_duty

CycleAfter(cycle, day_stats) == cycle + day_stats.total_on_duty

(* round(x, 1) of an amount of hours *)
RoundHours1(x) == RoundDiv(x, 10) * 10

(* Lines 520-531 with the days counted from 0. *)
DailyLogZeroBased(day_num, schedule, cycle) ==
  [ day_number |-> day_num - 1,
    cycle_used |-> RoundHours1(cycle),
    requires_34_hour_restart |-> (cycle >= RestartThreshold),
    schedule |-> schedule ]

(* Lines 520-531 *)
DailyLog(day_num, schedule, cycle) ==
  [ day_number |-> day_num,
    cycle_used |-> RoundHours1(cycle),
    requires_34_hour_restart |-> (cycle >= RestartThreshold),
    schedule |-> schedule ]

(* Lines 507-533: one iteration of the loop over the days in order. *)
GenerateDailyLog ==
  /\ pc = "daily_logs"
  /\ LET total_days == Cardinality(DaysOf(processed_stops))
         day_num == NthDay(processed_stops, Len(daily_logs) + 1)
         day_stops == DayStops(processed_stops, day_num)
         day_stats == calculate_day_stats(day_stops, day_num, total_days)
         schedule == generate_daily_schedule(day_stops, day_num, total_days)
         cycle == CycleAfter(cycle_used, day_stats)
     IN  /\ cycle_used' = cycle
         /\ daily_logs' = Append(daily_logs,
                                 DailyLog(day_num, schedule, cycle))
         /\ pc' = IF Len(daily_logs) + 1 = total_days
                  THEN "done" ELSE "daily_logs"
  /\ UNCHANGED <<callvars, stops, totals, segvars, processed_stops>>

----------------------------------------------------------------------------
(* MapService (map_service.py).                                            *)
(*                                                                         *)
(* A location name is a sequence of characters.  A coordinate pair is      *)
(* <<longitude, latitude>> in ten-thousandths of a degree; None and the    *)
(* empty list, both false in "if not coords", are the empty sequence.      *)
(* distance_km is an integer number of metres, duration_hours an integer   *)
(* number of 1/720000 hour (one metre at 80 km/h is 9 of them, one second  *)
(* is 200), coordinates the number of points of the polyline.              *)

MaxNameLen == 3

Alphabet == {"n", "N", "y", "Y", " "}

Names == UNION { [1..k -> Alphabet] : k \in 0..MaxNameLen }

NoCoords == <<>>

NewYork == <<-740060, 407128>>

Chicago == <<-876298, 418781>>

UsCenter == <<-985795, 398283>>

Points == {NewYork, Chicago, UsCenter}

NoRoute == [ distance_km |-> None, duration_hours |-> None,
             coordinates |-> None ]

(* str.lower() *)
lower(s) ==
  [ i \in 1..Len(s) |->
      CASE s[i] = "N" -> "n"
        [] s[i] = "Y" -> "y"
        [] OTHER -> s[i] ]

RECURSIVE lstrip(_)
lstrip(s) ==
  IF s # <<>> /\ Head(s) = " " THEN lstrip(Tail(s)) ELSE s

RECURSIVE rstrip(_)
rstrip(s) ==
  IF s # <<>> /\ s[Len(s)] = " " THEN rstrip(SubSeq(s, 1, Len(s) - 1)) ELSE s

(* str.strip() *)
strip(s) == rstrip(lstrip(s))

(* The responses of Nominatim: a result with coordinates, a result without *)
(* the lon/lat keys, no result, a status other than 200, no response.      *)
NominatimResponses ==
  { [ kind |-> "found", coords |-> c ] : c \in {NewYork, Chicago} }
    \cup { [ kind |-> k, coords |-> NoCoords ] :
             k \in {"malformed", "empty", "http_error", "exception"} }

(* _geocode_with_nominatim (lines 21-58): every failure is caught and      *)
(* gives None.                                                             *)
geocode_with_nominatim(response) ==
  IF response.kind = "found" THEN response.coords ELSE NoCoords

(* dict.get without the default of line 84 *)
get_mock_coordinates_no_default(location_name_) ==
  IF strip(lower(location_name_)) = <<"n", "y">> THEN NewYork ELSE NoCoords

(* _get_mock_coordinates (lines 60-84); of the table, the key that the     *)
(* alphabet can spell.                                                     *)
get_mock_coordinates(location_name_) ==
  LET clean_name == strip(lower(location_name_))
  IN  IF clean_name = <<"n", "y">> THEN NewYork ELSE UsCenter

(* _calculate_great_circle_distance (lines 163-180) at the points drawn:   *)
(* the value of the haversine formula rounded to the metre.                *)
calculate_great_circle_distance(coord1, coord2) ==
  CASE coord1 = coord2 -> 0
    [] {coord1, coord2} = {NewYork, Chicago} -> 1144291
    [] {coord1, coord2} = {NewYork, UsCenter} -> 2080379
    [] {coord1, coord2} = {Chicago, UsCenter} -> 947989

(* _generate_straight_route (lines 130-161) *)
generate_straight_route(start, end) ==
  LET missing == start = NoCoords \/ end = NoCoords
      s == IF missing THEN UsCenter ELSE start
      e == IF missing THEN UsCenter ELSE end
      distance_km == calculate_great_circle_distance(s, e)
      num_points == Max(10, distance_km \div 50000)
  IN  [ distance_km |-> distance_km,
        duration_hours |-> distance_km * 9,
        coordinates |-> num_points + 1 ]

(* The responses of OSRM: a route (distance in metres, duration in         *)
(* seconds, points of the geometry), a code other than Ok, a body without  *)
(* the expected keys, no response.                                         *)
OsrmResponses ==
  { [ kind |-> "Ok", distance |-> d[1], duration |-> d[2], points |-> d[3] ] :
      d \in {<<0, 0, 2>>, <<1270000, 43200, 40>>} }
    \cup { [ kind |-> k, distance |-> None, duration |-> None,
             points |-> None ] :
             k \in {"NoRoute", "malformed", "exception"} }

(* _get_osrm_route (lines 116-126) on a response with code Ok *)
get_osrm_route(response) ==
  [ distance_km |-> response.distance,
    duration_hours |-> response.duration * 200,
    coordinates |-> response.points ]

NoResponse == [ kind |-> "none" ]

MapIdle ==
  /\ location_name = <<>>
  /\ provider = NoResponse
  /\ real_coords = NoCoords
  /\ start_coords = NoCoords
  /\ end_coords = NoCoords
  /\ route = NoRoute

planvars == <<args, run, first_run, stops, totals, segvars, logvars>>

(* geocode_location line 14: the call of the provider. *)
GeocodeWithNominatim ==
  /\ pc = "geocode"
  /\ \E response \in NominatimResponses :
       /\ provider' = response
       /\ real_coords' = geocode_with_nominatim(response)
  /\ pc' = "geocoded"
  /\ UNCHANGED <<planvars, location_name, start_coords, end_coords, route>>

(* geocode_location lines 15-19; the coordinates returned become the       *)
(* origin of a route to any of the points.                                 *)
GeocodeLocation ==
  /\ pc = "geocoded"
  /\ start_coords' = IF real_coords # NoCoords THEN real_coords
                     ELSE get_mock_coordinates(location_name)
  /\ \E c \in Points : end_coords' = c
  /\ pc' = "route"
  /\ UNCHANGED <<planvars, location_name, provider, real_coords, route>>

CoordsMissing == start_coords = NoCoords \/ end_coords = NoCoords

(* get_route lines 88-94 when OSRM answers with a route. *)
GetRouteOsrm ==
  /\ pc = "route"
  /\ ~CoordsMissing
  /\ \E response \in OsrmResponses :
       /\ response.kind = "Ok"
       /\ provider' = response
       /\ route' = get_osrm_route(response)
  /\ pc' = "routed"
  /\ UNCHANGED <<planvars, location_name, real_coords, start_coords,
                 end_coords>>

(* get_route lines 90-91 and 95-98: coordinates missing. *)
GetRouteMissingCoords ==
  /\ pc = "route"
  /\ CoordsMissing
  /\ route' = generate_straight_route(start_coords, end_coords)
  /\ pc' = "routed"
  /\ UNCHANGED <<planvars, location_name, provider, real_coords,
                 start_coords, end_coords>>

(* get_route lines 95-98: OSRM fails. *)
GetRouteFallback ==
  /\ pc = "route"
  /\ ~CoordsMissing
  /\ \E response \in OsrmResponses :
       /\ response.kind # "Ok"
       /\ provider' = response
  /\ route' = generate_straight_route(start_coords, end_coords)
  /\ pc' = "routed"
  /\ UNCHANGED <<planvars, location_name, real_coords, start_coords,
                 end_coords>>

----------------------------------------------------------------------------
(* The planning core on one trip.                                          *)

NoTotals ==
  [ cumulative_driving_today |-> 0, cumulative_on_duty_today |-> 0,
    cumulative_driving_since_break |-> 0, cumulative_distance |-> 0,
    cumulative_hours |-> 0, next_fuel_check |-> None,
    current_hours |-> None ]

NoSegment ==
  [ is_after_pickup |-> FALSE, segment_distance_miles |-> 0,
    segment_duration_hours |-> 0, start_distance |-> 0, start_hours |-> 0 ]

Idle ==
  /\ totals = NoTotals
  /\ segment = NoSegment
  /\ segment_stops = <<>>
  /\ chunk = 0
  /\ current_cumulative_driving = 0
  /\ current_cumulative_on_duty = 0
  /\ current_cumulative_break = 0
  /\ current_fuel_check = None
  /\ current_hours = None
  /\ fuel_stop_counter = 0
  /\ driven = 0
  /\ chunk_stops = <<>>
  /\ processed_stops = <<>>
  /\ daily_logs = <<>>
  /\ cycle_used = 0

NoArgs ==
  [ current_to_pickup_miles |-> 0, current_to_pickup_hours |-> 0,
    pickup_to_dropoff_miles |-> 0, pickup_to_dropoff_hours |-> 0,
    current_cycle_used |-> 0 ]

(* Before any request has been served. *)
NoRun == [ args |-> NoArgs, stops |-> <<>>, daily_logs |-> <<>> ]

FirstCall ==
  /\ run = 1
  /\ first_run = NoRun

Init ==
  /\ \E miles \in MilesPairs, h1 \in LegDurations(MaxChunks1),
        h2 \in LegDurations(MaxChunks2), cycle \in CycleChoices :
       args = [ current_to_pickup_miles |-> miles[1],
                current_to_pickup_hours |-> h1,
                pickup_to_dropoff_miles |-> miles[2],
                pickup_to_dropoff_hours |-> h2,
                current_cycle_used |-> cycle ]
  /\ pc = "start"
  /\ stops = <<>>
  /\ Idle
  /\ FirstCall
  /\ MapIdle

Next ==
  \/ Start
  \/ Advance
  \/ EmitRest
  \/ SkipRest
  \/ EmitFuel
  \/ SkipFuel
  \/ EmitOvernightDriving
  \/ EmitOvernightDuty
  \/ SkipOvernight
  \/ EndSegment
  \/ PickupRaises
  \/ Pickup
  \/ Dropoff
  \/ AssignDays
  \/ SplitStops
  \/ GenerateDailyLog

Spec == Init /\ [][Next]_vars

----------------------------------------------------------------------------
(* The day splitter on one stop of any start and duration.                 *)

SplitInit ==
  /\ \E i \in 0..MaxSplitStart, j \in 0..MaxSplitDur :
       stops = <<Stop("OVERNIGHT", 0, i * SplitGrain, j * SplitGrain,
                      None, None, None)>>
  /\ args = NoArgs
  /\ pc = "split"
  /\ Idle
  /\ FirstCall
  /\ MapIdle

SplitNext == SplitStops

SplitSpec == SplitInit /\ [][SplitNext]_vars

----------------------------------------------------------------------------
(* Two planning requests served one after the other (views.py, plan_trip,  *)
(* lines 161-175: each request builds its own TripPlannerService and calls *)
(* plan_trip).  The second request has the legs of the first and any       *)
(* current_cycle_used.  Whatever the first call left behind is still there *)
(* when the second starts; the second call's own initialisation decides    *)
(* what it reads.                                                          *)

RerunHours1 == {0, 800, 1104, 2000}

RerunHours2 == {0, 30, 240, 1050}

RerunInit ==
  /\ \E miles \in MilesPairs, h1 \in RerunHours1, h2 \in RerunHours2,
        cycle \in CycleChoices :
       args = [ current_to_pickup_miles |-> miles[1],
                current_to_pickup_hours |-> h1,
                pickup_to_dropoff_miles |-> miles[2],
                pickup_to_dropoff_hours |-> h2,
                current_cycle_used |-> cycle ]
  /\ pc = "start"
  /\ stops = <<>>
  /\ Idle
  /\ FirstCall
  /\ MapIdle

NextCall ==
  /\ pc = "done"
  /\ run = 1
  /\ first_run' = [ args |-> args, stops |-> stops, daily_logs |-> daily_logs ]
  /\ run' = 2
  /\ \E cycle \in CycleChoices :
       args' = [ args EXCEPT !.current_cycle_used = cycle ]
  /\ pc' = "start"
  /\ UNCHANGED <<stops, totals, segvars, logvars, mapvars>>

RerunNext ==
  \/ Next
  \/ NextCall

RerunSpec == RerunInit /\ [][RerunNext]_vars

----------------------------------------------------------------------------
(* The map service on one name and one route: either a name is geocoded    *)
(* and a route is asked from its coordinates, or get_route is called with  *)
(* coordinates of which one or both may be missing.                        *)

MapInit ==
  /\ \/ /\ pc = "geocode"
        /\ location_name \in Names
        /\ start_coords = NoCoords
        /\ end_coords = NoCoords
     \/ /\ pc = "route"
        /\ location_name = <<>>
        /\ start_coords \in Points \cup {NoCoords}
        /\ end_coords \in Points \cup {NoCoords}
  /\ provider = NoResponse
  /\ real_coords = NoCoords
  /\ route = NoRoute
  /\ args = NoArgs
  /\ stops = <<>>
  /\ Idle
  /\ run = 1
  /\ first_run = NoRun

MapNext ==
  \/ GeocodeWithNominatim
  \/ GeocodeLocation
  \/ GetRouteOsrm
  \/ GetRouteMissingCoords
  \/ GetRouteFallback

MapSpec == MapInit /\ [][MapNext]_vars

----------------------------------------------------------------------------
(* The planning core on long trips: legs of up to 40 and 59 hours, which   *)
(* take the itinerary into a third and a fourth day.                       *)

LongHours1 == {0, 850, 1800, 4000}

LongHours2 == {200, 3000, 3700, 5900}

LongInit ==
  /\ \E miles \in MilesPairs, h1 \in LongHours1, h2 \in LongHours2,
        cycle \in CycleChoices :
       args = [ current_to_pickup_miles |-> miles[1],
                current_to_pickup_hours |-> h1,
                pickup_to_dropoff_miles |-> miles[2],
                pickup_to_dropoff_hours |-> h2,
                current_cycle_used |-> cycle ]
  /\ pc = "start"
  /\ stops = <<>>
  /\ Idle
  /\ FirstCall
  /\ MapIdle

LongSpec == LongInit /\ [][Next]_vars

----------------------------------------------------------------------------
(* Properties.                                                             *)

CountType(ss, type) == Cardinality({ i \in 1..Len(ss) : ss[i].type = type })

Returned == pc \in {"assign_days", "split", "daily_logs", "done"}

InLeg == pc \in {"loop", "check_rest", "check_fuel", "check_overnight"}

(* A schedule that covers the day without gap or overlap. *)
Contiguous(schedule) ==
  /\ Len(schedule) >= 1
  /\ schedule[1].start = 0
  /\ schedule[Len(schedule)].end = HoursPerDay
  /\ \A i \in 1..Len(schedule) : schedule[i].start <= schedule[i].end
  /\ \A i \in 2..Len(schedule) : schedule[i].start = schedule[i - 1].end

(* C1: the schedule of every day of every trip starts at hour 0, ends at   *)
(* hour 24, and each segment starts where the previous one ends, with      *)
(* start <= end, so no two segments overlap and no hour is left out.       *)
C1_ScheduleContiguous ==
  \A i \in 1..Len(daily_logs) : Contiguous(daily_logs[i].schedule)

(* A two-day trip whose first day has driving, on-duty and sleeper         *)
(* segments and whose schedules are both synthesized.                      *)
C1_Witness ==
  /\ pc = "done"
  /\ Len(daily_logs) >= 2
  /\ Len(daily_logs[1].schedule) >= 6
  /\ \E j \in 1..Len(daily_logs[1].schedule) :
       daily_logs[1].schedule[j].status = "SB"

(* C2: the duration_in_day values of the fragments of a stop sum to the    *)
(* stop's stop_duration, however many day boundaries the stop crosses.     *)
C2_FragmentsSumToDuration ==
  pc = "daily_logs" =>
    SumSeq([ i \in 1..Len(processed_stops) |->
               processed_stops[i].duration_in_day ])
      = stops[1].stop_duration

(* A stop that starts in the middle of a day and crosses two boundaries. *)
C2_Witness ==
  /\ pc = "daily_logs"
  /\ Len(processed_stops) = 3
  /\ processed_stops[1].start_time_in_day > 0
  /\ processed_stops[3].end_time_in_day < HoursPerDay

(* C3: cumulative_hours never decreases from one stop of the returned      *)
(* itinerary to the next.                                                  *)
C3_CumulativeHoursNonDecreasing ==
  Returned =>
    \A i \in 1..(Len(stops) - 1) :
      stops[i].cumulative_hours <= stops[i + 1].cumulative_hours

(* C4: at the moment a REST stop is emitted, driving_since_break does not  *)
(* exceed break_after_hours.                                               *)
C4_BreakWithinLimitAtRest ==
  (pc = "check_rest" /\ RestDue) =>
    current_cumulative_break <= break_after_hours

(* C5: at the moment an OVERNIGHT stop is emitted, driving_today does not  *)
(* exceed max_driving_hours and duty_today does not exceed max_duty_hours. *)
C5_ClocksWithinLimitsAtOvernight ==
  (pc = "check_overnight" /\ (DrivingLimitReached \/ DutyLimitReached)) =>
    /\ current_cumulative_driving <= max_driving_hours
    /\ current_cumulative_on_duty <= max_duty_hours

(* C6: a leg of duration d is simulated in N >= 1 chunks, one chunk when   *)
(* d is under half an hour, each chunk at most half an hour long, and the  *)
(* chunk hours added to the clocks are chunk by chunk the chunk length     *)
(* and over the whole leg exactly d.                                       *)
C6_Chunking ==
  InLeg \/ pc \in {"pickup", "dropoff"} =>
    /\ NumChunks >= 1
    /\ (segment.segment_duration_hours < CHUNK_SIZE_HOURS => NumChunks = 1)
    /\ ChunkHours <= CHUNK_SIZE_HOURS
    /\ chunk <= NumChunks
    /\ driven = ChunkHours * (IF pc \in {"check_rest", "check_fuel",
                                         "check_overnight"}
                              THEN chunk + 1 ELSE chunk)
    /\ (pc \in {"pickup", "dropoff"} =>
          /\ chunk = NumChunks
          /\ driven = segment.segment_duration_hours)

(* A leg of 0.3 hour after the pickup, simulated in its single chunk. *)
C6_Witness ==
  /\ pc = "dropoff"
  /\ segment.segment_duration_hours = 30
  /\ chunk = 1
  /\ driven = 30

HoursOf(ss) == [ i \in 1..Len(ss) |-> ss[i].cumulative_hours ]

TypesOf(ss) == [ i \in 1..Len(ss) |-> ss[i].type ]

(* The leg of 20 hours and 992 miles (about 1600 km) from zero clocks has  *)
(* returned its stops.                                                     *)
TwentyHourLegDone ==
  /\ pc = "pickup"
  /\ args.current_to_pickup_hours = 2000
  /\ args.current_to_pickup_miles = 9920

(* C7: the 20-hour leg from zero clocks emits exactly one REST, at hour 8, *)
(* exactly one OVERNIGHT, at hour 11, and no other REST or OVERNIGHT.      *)
C7_OneRestOneOvernight ==
  TwentyHourLegDone =>
    /\ CountType(segment_stops, "REST") = 1
    /\ CountType(segment_stops, "OVERNIGHT") = 1

(* C7 as amended: the 20-hour leg from zero clocks emits a REST at hour 8, *)
(* an OVERNIGHT at hour 11 and, eight driving hours after the overnight    *)
(* rest reset driving_since_break, a second REST at hour 19; nothing else. *)
C7_TwoRestsOneOvernight ==
  TwentyHourLegDone =>
    /\ TypesOf(segment_stops) = <<"REST", "OVERNIGHT", "REST">>
    /\ HoursOf(segment_stops) = <<800, 1100, 1900>>

C7_Witness ==
  /\ TwentyHourLegDone
  /\ Len(segment_stops) = 3
  /\ segment_stops[3].type = "REST"

(* The statistics of the k-th day of the trip, as line 512 computes them. *)
DayStatsOf(k) ==
  LET day_num == NthDay(processed_stops, k)
  IN  calculate_day_stats(DayStops(processed_stops, day_num), day_num,
                          Cardinality(DaysOf(processed_stops)))

(* current_cycle_used plus the driving and on-duty-not-driving hours of    *)
(* the first k days.                                                       *)
RECURSIVE CycleThrough(_)
CycleThrough(k) ==
  IF k = 0 THEN args.current_cycle_used
  ELSE CycleThrough(k - 1) + DayStatsOf(k).driving_hours
         + DayStatsOf(k).on_duty_not_driving

(* C8: after each day the cycle total is the total after the previous day  *)
(* (current_cycle_used before the first) plus the day's driving hours plus *)
(* its on-duty-not-driving hours; the day's log carries that total to one  *)
(* decimal and requires_34_hour_restart exactly when it is >= 70; a total  *)
(* of 65.0 and a day of 6 on-duty hours give 71.0 and the flag.            *)
C8_CycleAccumulates ==
  pc \in {"daily_logs", "done"} =>
    /\ cycle_used = CycleThrough(Len(daily_logs))
    /\ \A k \in 1..Len(daily_logs) :
         /\ daily_logs[k].cycle_used = RoundHours1(CycleThrough(k))
         /\ daily_logs[k].requires_34_hour_restart
              <=> (CycleThrough(k) >= RestartThreshold)
         /\ (CycleThrough(k - 1) = 6500 /\ DayStatsOf(k).total_on_duty = 600
               => /\ daily_logs[k].cycle_used = 7100
                  /\ daily_logs[k].requires_34_hour_restart)

(* The total stands at 65.0 hours after the first day and the second day   *)
(* has 6 on-duty hours.                                                    *)
C8_Witness ==
  /\ pc = "done"
  /\ Len(daily_logs) = 2
  /\ CycleThrough(1) = 6500
  /\ DayStatsOf(2).total_on_duty = 600
  /\ daily_logs[2].cycle_used = 7100
  /\ ~daily_logs[1].requires_34_hour_restart

(* C9: for every pair of legs the itinerary builder completes without      *)
(* raising and returns START first, DROPOFF last and one PICKUP between.   *)
C9_ItineraryAlwaysReturned ==
  /\ pc # "raised"
  /\ Returned =>
       /\ stops[1].type = "START"
       /\ stops[Len(stops)].type = "DROPOFF"
       /\ CountType(stops, "PICKUP") = 1

(* The last day of the trip and its schedule, once all days are logged. *)
FinalSchedule == daily_logs[Len(daily_logs)].schedule

FinalSegment == FinalSchedule[Len(FinalSchedule)]

(* C10: the schedule of the trip's final day ends with an OFF_DUTY segment *)
(* that ends at hour 24; its last segment is never DRIVING, SLEEPER_BERTH  *)
(* or ON_DUTY.                                                             *)
C10_FinalDayEndsOffDuty ==
  pc = "done" =>
    /\ FinalSegment.status = "OFF"
    /\ FinalSegment.end = HoursPerDay

----------------------------------------------------------------------------
(* Two requests.                                                           *)

SecondRunDone == run = 2 /\ pc = "done"

SchedulesOf(logs) == [ k \in 1..Len(logs) |-> logs[k].schedule ]

(* C11: a second run of the planning core on the same leg distances, leg   *)
(* durations and current_cycle_used returns the stop list and the daily    *)
(* logs (schedule, cycle_used and restart flag of every day) of the first. *)
C11_RerunIsIdempotent ==
  (SecondRunDone /\ args = first_run.args) =>
    /\ stops = first_run.stops
    /\ daily_logs = first_run.daily_logs

(* A second run on the same arguments of a trip of two days with a REST    *)
(* and an OVERNIGHT stop.                                                  *)
C11_Witness ==
  /\ SecondRunDone
  /\ args = first_run.args
  /\ Len(daily_logs) >= 2
  /\ CountType(stops, "REST") >= 1
  /\ CountType(stops, "OVERNIGHT") >= 1

----------------------------------------------------------------------------
(* The hand-over at the pickup.                                            *)

(* C12: the step taken at the pickup starts the second leg with the        *)
(* driving_today and driving_since_break the first leg ended with, with    *)
(* its duty_today plus the pickup hour, and with the elapsed hours of the  *)
(* PICKUP stop plus the pickup hour, whether or not the first leg emitted  *)
(* a stop.                                                                 *)
C12_StateCarriedAcrossPickup ==
  [][ pc = "pickup" =>
        /\ pc' = "loop"
        /\ current_cumulative_driving' = current_cumulative_driving
        /\ current_cumulative_break' = current_cumulative_break
        /\ current_cumulative_on_duty' =
             current_cumulative_on_duty + pickup_duration
        /\ segment'.start_hours =
             Last(stops').cumulative_hours + pickup_duration ]_vars

----------------------------------------------------------------------------
(* The restart flag.                                                       *)

StopTypes == {"START", "PICKUP", "DROPOFF", "FUEL", "REST", "OVERNIGHT"}

(* C13: no stop of the itinerary is of a type outside START, PICKUP,       *)
(* DROPOFF, FUEL, REST and OVERNIGHT or lasts 34 hours, and a second run   *)
(* on the same legs with any current_cycle_used returns the itinerary and  *)
(* the schedule of every day of the first, whatever the restart flags.     *)
C13_RestartFlagIsAdvisory ==
  /\ \A i \in 1..Len(stops) :
       /\ stops[i].type \in StopTypes
       /\ stops[i].stop_duration # 3400
  /\ SecondRunDone =>
       /\ stops = first_run.stops
       /\ SchedulesOf(daily_logs) = SchedulesOf(first_run.daily_logs)

(* The second run differs from the first in current_cycle_used only, and   *)
(* it raises the restart flag on a day on which the first did not.         *)
C13_Witness ==
  /\ SecondRunDone
  /\ args.current_cycle_used # first_run.args.current_cycle_used
  /\ \E k \in 1..Len(daily_logs) :
       /\ daily_logs[k].requires_34_hour_restart
       /\ ~first_run.daily_logs[k].requires_34_hour_restart


Routed == pc = "routed"

(* C14: every route record that get_route returns has a duration that is   *)
(* strictly positive, however short the distance.                          *)
C14_DurationPositive ==
  Routed => route.duration_hours > 0

IsCoords(c) == c \in Seq(Int) /\ Len(c) = 2

ProviderFailed == provider.kind \notin {"found", "Ok"}

(* C15: no failure of a provider reaches the caller.  geocode_location     *)
(* always returns a coordinate pair: the provider's when it answers, and   *)
(* on any failure the approximate table's entry for the lower-cased,       *)
(* trimmed name, or the centre of the United States.  get_route always     *)
(* returns a complete route record: the provider's when it answers, and    *)
(* on any failure or with coordinates missing the straight line, whose     *)
(* distance is the great-circle distance and whose duration is that        *)
(* distance at 80 km/h.  No step raises or returns nothing.                *)
C15_ProviderFailuresAbsorbed ==
  /\ pc \in {"geocode", "geocoded", "route", "routed"}
  /\ (pc = "route" /\ location_name \in Names /\ provider # NoResponse) =>
       /\ IsCoords(start_coords)
       /\ ~ProviderFailed => start_coords = provider.coords
       /\ ProviderFailed =>
            start_coords = IF strip(lower(location_name)) = <<"n", "y">>
                           THEN NewYork ELSE UsCenter
  /\ Routed =>
       /\ route # NoRoute
       /\ route.distance_km \in Nat
       /\ route.duration_hours \in Nat
       /\ route.coordinates \in Nat \ {0, 1}
       /\ (provider.kind = "Ok") =>
            /\ route.distance_km = provider.distance
            /\ route.duration_hours = provider.duration * 200
       /\ (provider.kind # "Ok" /\ ~CoordsMissing) =>
            /\ route.distance_km =
                 calculate_great_circle_distance(start_coords, end_coords)
            /\ route.duration_hours * 80 = route.distance_km * 720
       /\ CoordsMissing =>
            /\ route.distance_km = 0
            /\ route.duration_hours = 0

(* A name that the table does not hold was geocoded while the provider     *)
(* was down, and the route from it was drawn as a straight line because    *)
(* the routing provider failed as well.                                    *)
C15_Witness ==
  /\ Routed
  /\ location_name = <<"N", " ", "y">>
  /\ real_coords = NoCoords
  /\ start_coords = UsCenter
  /\ provider.kind = "exception"
  /\ route.distance_km = 2080379


InvalidInput ==
  \/ args.current_to_pickup_miles <= 0
  \/ args.current_to_pickup_hours <= 0
  \/ args.pickup_to_dropoff_miles <= 0
  \/ args.pickup_to_dropoff_hours <= 0

(* C16: when the distance or the duration of a leg is not positive the     *)
(* request is rejected before the simulation starts: no chunk is           *)
(* simulated, no stop is generated and no trip plan is returned.           *)
C16_InvalidInputRejected ==
  InvalidInput =>
    /\ stops = <<>>
    /\ segment_stops = <<>>
    /\ driven = 0
    /\ ~Returned


(* C17: the fragments of a stop that starts at h >= 0 and lasts d >= 0     *)
(* tile [h, h + d) exactly.  They lie on consecutive days from the day     *)
(* floor(h / 24) + 1, as many as the calendar days the interval meets (one *)
(* when d = 0); the first starts at h mod 24; each has                     *)
(* 0 <= start <= end <= 24 and duration = end - start; all but the last    *)
(* end at 24, all but the first start at 0, the last ends where the stop   *)
(* ends; the parts of a split stop are numbered 1, 2, 3, ... in day order. *)
C17_FragmentsTileInterval ==
  pc = "daily_logs" =>
    LET h == stops[1].cumulative_hours
        d == stops[1].stop_duration
        f == processed_stops
        n == Len(f)
        first_day == (h \div HoursPerDay) + 1
        days_met == IF d = 0 THEN 1
                    ELSE ((h + d + HoursPerDay - 1) \div HoursPerDay)
                           - (h \div HoursPerDay)
    IN  /\ n = days_met
        /\ f[1].start_time_in_day = h % HoursPerDay
        /\ (first_day + n - 2) * HoursPerDay + f[n].end_time_in_day = h + d
        /\ \A i \in 1..n :
             /\ f[i].day = first_day + i - 1
             /\ 0 <= f[i].start_time_in_day
             /\ f[i].start_time_in_day <= f[i].end_time_in_day
             /\ f[i].end_time_in_day <= HoursPerDay
             /\ f[i].duration_in_day
                  = f[i].end_time_in_day - f[i].start_time_in_day
             /\ i < n => f[i].end_time_in_day = HoursPerDay
             /\ i > 1 => f[i].start_time_in_day = 0
             /\ n > 1 => f[i].is_split_part
             /\ f[i].is_split_part => f[i].split_part = i

(* A stop that starts during a day and ends exactly at the third midnight  *)
(* after it: three fragments, the last a whole day.                        *)
C17_Witness ==
  /\ pc = "daily_logs"
  /\ Len(processed_stops) = 3
  /\ processed_stops[1].start_time_in_day > 0
  /\ processed_stops[3].duration_in_day = HoursPerDay
  /\ processed_stops[3].split_part = 3


(* C18: the advance of the clock by the duration of a REST, FUEL or        *)
(* OVERNIGHT stop persists: every stop emitted after such a stop S starts  *)
(* at or after S.cumulative_hours + S.stop_duration, so that the intervals *)
(* of two stops of the itinerary never overlap.                            *)
C18_ClockAdvancePersists ==
  Returned =>
    \A i, j \in 1..Len(stops) :
      (i < j /\ stops[i].type \in {"REST", "FUEL", "OVERNIGHT"}) =>
        stops[j].cumulative_hours
          >= stops[i].cumulative_hours + stops[i].stop_duration


(* The place of a trigger in the order of the checks. *)
TriggerRank(type) ==
  CASE type = "REST" -> 1
    [] type = "FUEL" -> 2
    [] type = "OVERNIGHT" -> 3

RECURSIVE StopHoursOf(_)
StopHoursOf(types) ==
  IF types = <<>> THEN 0
  ELSE (CASE Head(types) = "REST" -> rest_stop_duration
          [] Head(types) = "FUEL" -> fuel_stop_duration
          [] Head(types) = "OVERNIGHT" -> min_rest_hours)
         + StopHoursOf(Tail(types))

(* The hours at the end of the c-th chunk of the leg, stops apart. *)
ChunkEndHours(c) ==
  segment.start_hours + (c * segment.segment_duration_hours) \div NumChunks

(* C19: within one chunk the triggers are evaluated in the order REST,     *)
(* FUEL, OVERNIGHT, each on the state left by the one before: the stops of *)
(* the chunk are at most one REST, one FUEL and one OVERNIGHT, they are    *)
(* the last stops of the leg's list in that order, the fuel check sees the *)
(* break clock after the REST check, and a later stop of the chunk starts  *)
(* from the clock left by the earlier ones.                                *)
C19_TriggersInFixedOrder ==
  InLeg =>
    LET n == Len(chunk_stops)
        m == Len(segment_stops)
        this_chunk == IF pc = "loop" THEN chunk ELSE chunk + 1
    IN  /\ \A i, j \in 1..n :
             i < j => TriggerRank(chunk_stops[i]) < TriggerRank(chunk_stops[j])
        /\ n <= m
        /\ \A i \in 1..n : segment_stops[m - n + i].type = chunk_stops[i]
        /\ pc = "check_rest" => n = 0
        /\ pc = "check_fuel" => \A i \in 1..n : chunk_stops[i] = "REST"
        /\ pc = "check_overnight" => \A i \in 1..n : chunk_stops[i] # "OVERNIGHT"
        /\ pc \in {"check_fuel", "check_overnight"} =>
             IF \E i \in 1..n : chunk_stops[i] = "REST"
             THEN current_cumulative_break = 0
             ELSE current_cumulative_break < break_after_hours
        /\ (pc # "loop" \/ chunk > 0) =>
             current_hours = ChunkEndHours(this_chunk) + StopHoursOf(chunk_stops)
        /\ \A i \in 1..n :
             chunk_stops[i] = "FUEL" =>
               segment_stops[m - n + i].cumulative_hours
                 = ChunkEndHours(this_chunk)
                     + StopHoursOf(SubSeq(chunk_stops, 1, i - 1))

(* A chunk in which a REST and a FUEL stop were both emitted. *)
C19_Witness ==
  /\ pc = "check_overnight"
  /\ chunk_stops = <<"REST", "FUEL">>


(* The step appends to the leg's list a stop of one of the types. *)
Emits(types) ==
  /\ Len(segment_stops') = Len(segment_stops) + 1
  /\ segment_stops'[Len(segment_stops')].type \in types

(* C20: driving_since_break is set to 0 only by the emission of a REST     *)
(* stop; no other step of the simulation lowers it.                        *)
C20_OnlyRestResetsBreakClock ==
  [][ current_cumulative_break' < current_cumulative_break =>
        (current_cumulative_break' = 0 /\ Emits({"REST"})) ]_vars

(* C20, amended: driving_since_break is set to 0 only by the emission of a *)
(* REST stop or of an OVERNIGHT stop; advancing a chunk, emitting a FUEL   *)
(* stop, the PICKUP and the hand-over between the legs do not lower it.    *)
C20_OnlyRestOrOvernightResetsBreakClock ==
  [][ current_cumulative_break' < current_cumulative_break =>
        (current_cumulative_break' = 0 /\ Emits({"REST", "OVERNIGHT"})) ]_vars

(* An OVERNIGHT stop, with no REST in the same chunk, has just reset a     *)
(* break clock that the chunk had advanced.                                *)
C20_Witness ==
  /\ pc = "loop"
  /\ chunk_stops # <<>>
  /\ \A i \in 1..Len(chunk_stops) : chunk_stops[i] # "REST"
  /\ chunk_stops[Len(chunk_stops)] = "OVERNIGHT"
  /\ segment.segment_duration_hours > 0
  /\ current_cumulative_break = 0

(* C21: a REST or a FUEL stop leaves driving_today as it is and adds its   *)
(* own duration to duty_today; a FUEL stop leaves driving_since_break as   *)
(* it is and a REST stop the fuel checkpoint; driving_today and duty_today *)
(* go down only at the emission of an OVERNIGHT stop, which sets both to 0 *)
(* and leaves the fuel checkpoint as it is.                                *)
C21_StopEffectsOnClocks ==
  [][ /\ Emits({"REST"}) =>
           /\ current_cumulative_driving' = current_cumulative_driving
           /\ current_cumulative_on_duty'
                = current_cumulative_on_duty + rest_stop_duration
           /\ current_fuel_check' = current_fuel_check
      /\ Emits({"FUEL"}) =>
           /\ current_cumulative_driving' = current_cumulative_driving
           /\ current_cumulative_on_duty'
                = current_cumulative_on_duty + fuel_stop_duration
           /\ current_cumulative_break' = current_cumulative_break
      /\ Emits({"OVERNIGHT"}) =>
           /\ current_cumulative_driving' = 0
           /\ current_cumulative_on_duty' = 0
           /\ current_fuel_check' = current_fuel_check
      /\ (\/ current_cumulative_driving' < current_cumulative_driving
          \/ current_cumulative_on_duty' < current_cumulative_on_duty) =>
           Emits({"OVERNIGHT"}) ]_vars

(* A FUEL stop has just been emitted after a REST stop of the same chunk:  *)
(* the duty clock holds both durations on top of the value stamped on the  *)
(* REST stop, the driving clock the value stamped on both.                 *)
C21_Witness ==
  /\ pc = "check_overnight"
  /\ chunk_stops = <<"REST", "FUEL">>
  /\ current_cumulative_driving > 0
  /\ current_cumulative_driving
       = segment_stops[Len(segment_stops) - 1].cumulative_driving_today
  /\ current_cumulative_on_duty
       = segment_stops[Len(segment_stops) - 1].cumulative_on_duty_today
           + rest_stop_duration + fuel_stop_duration

(* The stops of the trip emitted so far, in order. *)
StopsSoFar ==
  IF InLeg \/ pc \in {"pickup", "dropoff"} THEN stops \o segment_stops
  ELSE stops

(* The number of stops of the type among the first i. *)
CountUpTo(ss, type, i) == CountType(SubSeq(ss, 1, i), type)

(* C22: no FUEL stop is emitted in the leg before the PICKUP; in the leg   *)
(* after it a FUEL stop is emitted only in a chunk whose cumulative        *)
(* distance has reached the fuel checkpoint, and each emission raises the  *)
(* checkpoint by one fuel interval; the k-th FUEL stop of a trip lies at   *)
(* a cumulative distance of k fuel intervals or more, and a trip has at    *)
(* most floor(total distance / fuel interval) FUEL stops.                  *)
C22_FuelStopsFollowCheckpoint ==
  LET ss == StopsSoFar
      fuels == CountType(ss, "FUEL")
  IN  /\ \A i \in 1..Len(ss) :
           ss[i].type = "FUEL" =>
             /\ \E j \in 1..(i - 1) : ss[j].type = "PICKUP"
             /\ ss[i].cumulative_distance_miles
                  >= CountUpTo(ss, "FUEL", i) * fuel_interval_miles
      /\ InLeg => current_fuel_check = (fuels + 1) * fuel_interval_miles
      /\ (InLeg /\ ~segment.is_after_pickup) => fuels = 0
      /\ (pc = "check_overnight" /\ chunk_stops # <<>>
            /\ chunk_stops[Len(chunk_stops)] = "FUEL") =>
           /\ segment.is_after_pickup
           /\ current_distance_num
                >= (current_fuel_check - fuel_interval_miles) * NumChunks
      /\ Returned => fuels <= total_distance_miles \div fuel_interval_miles

(* A returned trip with six FUEL stops, the last of them at the sixth      *)
(* checkpoint or beyond.                                                   *)
C22_Witness ==
  /\ Returned
  /\ CountType(stops, "FUEL") = 6
  /\ \E i \in 1..Len(stops) :
       /\ stops[i].type = "FUEL"
       /\ CountUpTo(stops, "FUEL", i) = 6
       /\ stops[i].cumulative_distance_miles >= 6 * fuel_interval_miles

(* The fragments of the day of the k-th daily log, in the order in which   *)
(* the schedule is built from them.                                        *)
LogDayStops(k) == DayStops(processed_stops, daily_logs[k].day_number)

(* The schedule has a segment with the status over the hours. *)
HasSegment(schedule, status, start, end) ==
  \E s \in 1..Len(schedule) :
    /\ schedule[s].status = status
    /\ schedule[s].start = start
    /\ schedule[s].end = end

(* The status that the fixed mapping gives to a fragment. *)
MappedStatus(type) ==
  IF type = "OVERNIGHT" THEN "SB" ELSE "ON"

MappedTypes == {"PICKUP", "DROPOFF", "FUEL", "REST", "OVERNIGHT"}

(* C23: for every day and every fragment of that day, the day's schedule   *)
(* has a segment from the fragment's start_time_in_day to its              *)
(* end_time_in_day, ON for PICKUP, DROPOFF, FUEL and REST and SB for       *)
(* OVERNIGHT; no fragment is left out, and every gap between consecutive   *)
(* fragments is a driving segment.                                         *)
C23_EveryFragmentScheduled ==
  pc = "done" =>
    \A k \in 1..Len(daily_logs) :
      LET f == LogDayStops(k)
          schedule == daily_logs[k].schedule
      IN  /\ \A i \in 1..Len(f) :
               f[i].type \in MappedTypes =>
                 HasSegment(schedule, MappedStatus(f[i].type),
                            f[i].start_time_in_day, f[i].end_time_in_day)
          /\ \A i \in 1..(Len(f) - 1) :
               f[i].end_time_in_day < f[i + 1].start_time_in_day =>
                 HasSegment(schedule, "D", f[i].end_time_in_day,
                            f[i + 1].start_time_in_day)

(* The OVERNIGHT fragments of a day that continue a stop of an earlier     *)
(* day.                                                                    *)
CarriedOvernight(day_stops) ==
  SelectSeq(day_stops,
            LAMBDA f : f.type = "OVERNIGHT" /\ f.is_split_part
                         /\ f.split_part > 1)

(* C24: on every day after the first, the first segment of the schedule is *)
(* the part of the previous day's OVERNIGHT stop carried over into the     *)
(* day, from hour 0 to the end of that fragment; only when no OVERNIGHT    *)
(* fragment is carried over is it the default sleeper-berth block from     *)
(* hour 0 to hour 10.                                                      *)
C24_LaterDaysOpenWithCarriedRest ==
  pc = "done" =>
    \A k \in 1..Len(daily_logs) :
      daily_logs[k].day_number > 1 =>
        LET carried == CarriedOvernight(LogDayStops(k))
            first == daily_logs[k].schedule[1]
        IN  first = DutySegment("SB", 0,
                                IF carried # <<>>
                                THEN carried[1].end_time_in_day
                                ELSE DefaultSleeperEnd)

(* The schedule of day 1 and the fragments it is built from. *)
DayOneSchedule == daily_logs[1].schedule

DayOneStops == LogDayStops(1)

(* C25: on day 1 the schedule begins with an OFF segment from hour 0 to    *)
(* the start of the day's first fragment; the default start hour is the    *)
(* end of that segment only when no fragment precedes it.                  *)
C25_DayOneBeginsOffDuty ==
  pc = "done" =>
    /\ DayOneSchedule[1].status = "OFF"
    /\ DayOneSchedule[1].start = 0
    /\ DayOneSchedule[1].end =
         IF DayOneStops[1].start_time_in_day < DefaultDayStart
         THEN DayOneStops[1].start_time_in_day
         ELSE DefaultDayStart

(* A day of one REST fragment that starts at the hour. *)
OneFragmentDay(start) ==
  <<Fragment(Stop("REST", 0, start, rest_stop_duration, None, None, None),
             1, start, start + rest_stop_duration, rest_stop_duration,
             FALSE, None)>>

FirstFragmentStarts == {0, 50, 400, 550, 600, 800}

(* C25, amended: on day 1 the time before the first fragment is OFF, from  *)
(* hour 0 to the start of the first fragment when that start is before     *)
(* the default start hour and to the default start hour otherwise; when    *)
(* the first fragment starts at hour 0 there is no such segment.  The      *)
(* first fragment of every planned trip is the START stop at hour 0, so    *)
(* the schedule of day 1 begins with the START segment from 0 to 0 and not *)
(* with an OFF segment.                                                    *)
C25_DayOneOffDutyOnlyBeforeLaterStart ==
  pc = "done" =>
    /\ \A start \in FirstFragmentStarts :
         LET acc == ScheduleStart(OneFragmentDay(start), 1)
             until == IF start < DefaultDayStart THEN start
                      ELSE DefaultDayStart
         IN  /\ acc.current_time = until
             /\ acc.schedule = IF until > 0
                               THEN <<DutySegment("OFF", 0, until)>>
                               ELSE <<>>
    /\ ScheduleStart(<<>>, 1).schedule
         = <<DutySegment("OFF", 0, DefaultDayStart)>>
    /\ daily_logs[1].day_number = 1
    /\ DayOneStops[1].type = "START"
    /\ DayOneStops[1].start_time_in_day = 0
    /\ DayOneSchedule[1] = DutySegment("D", 0, 0)

(* A finished trip whose first day begins with the START segment and goes  *)
(* on with driving from hour 0.                                            *)
C25_Witness ==
  /\ pc = "done"
  /\ Len(DayOneSchedule) >= 2
  /\ DayOneSchedule[1] = DutySegment("D", 0, 0)
  /\ DayOneSchedule[2].status = "D"
  /\ DayOneSchedule[2].start = 0
  /\ DayOneSchedule[2].end > 0

(* The checks of a chunk have all run. *)
ChunkDone == pc = "loop" /\ chunk > 0

(* The stop that the last step appended to the leg's list, with the        *)
(* clocks stamped on it at its emission.                                   *)
JustEmitted(type) ==
  /\ InLeg
  /\ chunk_stops # <<>>
  /\ chunk_stops[Len(chunk_stops)] = type
  /\ pc = (CASE type = "REST" -> "check_fuel"
             [] type = "FUEL" -> "check_overnight"
             [] type = "OVERNIGHT" -> "loop")

(* The OVERNIGHT stop just emitted is the first of the leg after the       *)
(* pickup: the duty clock still holds the hour of the pickup.              *)
FirstOvernightAfterPickup ==
  segment.is_after_pickup /\ CountType(segment_stops, "OVERNIGHT") = 1

ClocksBelowLimitsAfterChecks ==
  ChunkDone =>
    /\ current_cumulative_break < break_after_hours
    /\ current_cumulative_driving < max_driving_hours
    /\ current_cumulative_on_duty < max_duty_hours

DrivingClocksWithinOneChunk ==
  /\ JustEmitted("REST") =>
       Last(segment_stops).cumulative_driving_since_break
         < break_after_hours + CHUNK_SIZE_HOURS
  /\ JustEmitted("OVERNIGHT") =>
       Last(segment_stops).cumulative_driving_today
         < max_driving_hours + CHUNK_SIZE_HOURS

(* C26: when all the checks of a chunk have run, driving_since_break < 8,  *)
(* driving_today < 11 and duty_today < 14; so a clock exceeds its limit at *)
(* an emission by less than one chunk (0.5 h), unless the excess was added *)
(* between the legs.                                                       *)
C26_ClocksWithinOneChunkOfLimits ==
  /\ ClocksBelowLimitsAfterChecks
  /\ DrivingClocksWithinOneChunk
  /\ (JustEmitted("OVERNIGHT") /\ ~FirstOvernightAfterPickup) =>
       Last(segment_stops).cumulative_on_duty_today
         < max_duty_hours + CHUNK_SIZE_HOURS

(* C26, amended: when all the checks of a chunk have run,                  *)
(* driving_since_break < 8, driving_today < 11 and duty_today < 14; so the *)
(* two driving clocks exceed their limits at an emission by less than one  *)
(* chunk, and the duty clock by less than one chunk plus the REST and FUEL *)
(* stops of the same chunk, plus the hour of the pickup at the first       *)
(* OVERNIGHT stop after it.                                                *)
C26_DutyWithinOneChunkAndItsStops ==
  /\ ClocksBelowLimitsAfterChecks
  /\ DrivingClocksWithinOneChunk
  /\ JustEmitted("OVERNIGHT") =>
       Last(segment_stops).cumulative_on_duty_today
         < max_duty_hours + CHUNK_SIZE_HOURS
             + StopHoursOf(SubSeq(chunk_stops, 1, Len(chunk_stops) - 1))
             + (IF FirstOvernightAfterPickup THEN pickup_duration ELSE 0)

(* An OVERNIGHT stop emitted after an earlier OVERNIGHT stop of the same   *)
(* leg, in a chunk that also held a FUEL stop, with the duty clock half an *)
(* hour or more over its limit.                                            *)
C26_Witness ==
  /\ JustEmitted("OVERNIGHT")
  /\ ~FirstOvernightAfterPickup
  /\ chunk_stops = <<"FUEL", "OVERNIGHT">>
  /\ Last(segment_stops).cumulative_on_duty_today
       >= max_duty_hours + CHUNK_SIZE_HOURS

(* C27: throughout a trip started from zero clocks, after every chunk      *)
(* advance and every stop emission,                                        *)
(* 0 <= driving_since_break <= driving_today <= duty_today.                *)
C27_ClocksOrdered ==
  (InLeg \/ pc \in {"pickup", "dropoff"}) =>
    /\ 0 <= current_cumulative_break
    /\ current_cumulative_break <= current_cumulative_driving
    /\ current_cumulative_driving <= current_cumulative_on_duty

(* In the leg after the pickup, past a REST stop: the three clocks differ. *)
C27_Witness ==
  /\ InLeg
  /\ segment.is_after_pickup
  /\ 0 < current_cumulative_break
  /\ current_cumulative_break < current_cumulative_driving
  /\ current_cumulative_driving + pickup_duration < current_cumulative_on_duty

(* The total length of the segments of the schedule with the status. *)
RECURSIVE StatusHours(_, _)
StatusHours(schedule, status) ==
  IF schedule = <<>> THEN 0
  ELSE (IF Head(schedule).status = status
        THEN Head(schedule).end - Head(schedule).start ELSE 0)
         + StatusHours(Tail(schedule), status)

(* C28: for every day the aggregate hours of _calculate_day_stats agree    *)
(* with the schedule of _generate_daily_schedule for the same fragments:   *)
(* driving with the D segments, on-duty-not-driving with the ON segments,  *)
(* sleeper berth with the SB segments, off duty with the OFF segments, and *)
(* the four aggregates sum to 24.                                          *)
C28_StatsAgreeWithSchedule ==
  pc = "done" =>
    \A k \in 1..Len(daily_logs) :
      LET stats == DayStatsOf(k)
          schedule == daily_logs[k].schedule
      IN  /\ stats.driving_hours = StatusHours(schedule, "D")
          /\ stats.on_duty_not_driving = StatusHours(schedule, "ON")
          /\ stats.sleeper_berth = StatusHours(schedule, "SB")
          /\ stats.off_duty_hours = StatusHours(schedule, "OFF")
          /\ stats.driving_hours + stats.on_duty_not_driving
               + stats.sleeper_berth + stats.off_duty_hours = HoursPerDay

(* C29: the daily logs have the day numbers 1, 2, ..., N, none missing and *)
(* none repeated, so that the day treated as the final one, the day whose  *)
(* number equals the number of days with fragments, is the last day of the *)
(* trip.                                                                   *)
C29_DayNumbersConsecutive ==
  /\ pc \in {"daily_logs", "done"} =>
       /\ DaysOf(processed_stops) = 1..Cardinality(DaysOf(processed_stops))
       /\ \A k \in 1..Len(daily_logs) : daily_logs[k].day_number = k
  /\ pc = "done" => Len(daily_logs) = Cardinality(DaysOf(processed_stops))

(* A finished trip of four days. *)
C29_Witness ==
  /\ pc = "done"
  /\ Len(daily_logs) = 4
  /\ daily_logs[4].day_number = 4

(* C30: across the daily logs of a trip in day order the cycle_used never  *)
(* decreases, and once requires_34_hour_restart is true for a day it is    *)
(* true for every later day.                                               *)
C30_CycleNeverDecreases ==
  pc \in {"daily_logs", "done"} =>
    /\ \A k \in 1..Len(daily_logs) :
         daily_logs[k].cycle_used >= RoundHours1(args.current_cycle_used)
    /\ \A i, j \in 1..Len(daily_logs) :
         i < j =>
           /\ daily_logs[i].day_number < daily_logs[j].day_number
           /\ daily_logs[i].cycle_used <= daily_logs[j].cycle_used
           /\ daily_logs[i].requires_34_hour_restart
                => daily_logs[j].requires_34_hour_restart

(* A finished trip of three days or more whose cycle total grows every     *)
(* day and passes 70 hours on the second day.                              *)
C30_Witness ==
  /\ pc = "done"
  /\ Len(daily_logs) >= 3
  /\ ~daily_logs[1].requires_34_hour_restart
  /\ daily_logs[2].requires_34_hour_restart
  /\ daily_logs[3].requires_34_hour_restart
  /\ daily_logs[1].cycle_used < daily_logs[2].cycle_used
  /\ daily_logs[2].cycle_used < daily_logs[3].cycle_used

====
